---------------------------- MODULE Spec2Model ----------------------------
(***************************************************************************)
(* Alert delivery clients of my_alert_app.                                 *)
(*                                                                         *)
(*   - the simple long-poll client       (src/unnamed/part_000)            *)
(*   - the persistent-id long-poll client (src/static/js/scriptlong.js)    *)
(*   - the WebSocket client              (src/unnamed/part_001)            *)
(*   - the WebSocket client with latency probing                           *)
(*                                       (src/static/js/scriptpush.js)     *)
(*   - the push-notification client     (src/static/js/scriptpush.js)     *)
(*                                                                         *)
(* Each script runs in a page of its own, so each client has its own       *)
(* next-state relation and specification (SpecPoll, SpecLong, SpecWS).     *)
(* SpecWSConn is the WebSocket page when the server sends no messages,     *)
(* with room for enough sockets to use up the reconnect attempts and with  *)
(* the page's unload; SpecDelivery is any one of the three pages when      *)
(* every request is answered and nobody stops the client.                  *)
(* SpecProbe is the page of the WebSocket client with latency probing;     *)
(* SpecHold follows one request of the simple long-poll client in time;    *)
(* SpecIdentity has the steps that bear on the stored client id,           *)
(* SpecSession one page session of the persistent-id client, and           *)
(* SpecLongFair that client under the scheduling of its timers.            *)
(* SpecPush is the page of the push-notification client, from its load on, *)
(* with the list an earlier session may have left in localStorage.         *)
(* The server is not part of the repository: what it answers is an input   *)
(* of the handlers, and for the simple long-poll client the order in which *)
(* it produces its responses is recorded.  Variables whose name ends in    *)
(* Log or Order, and op, the fetched, started, produced and since-open     *)
(* counters, are history variables: they record what the handlers did and  *)
(* are never read by the modelled code.                                    *)
(***************************************************************************)
EXTENDS Integers, Sequences, FiniteSets, TLC

VARIABLES
    op,              \* the handler that ran last, with the branch it took
    \* ---- simple long-poll client (part_000)
    isPolling,       \* let isPolling
    pollInflight,    \* fetch() promises of longPollCycle not yet settled
    pollTimers,      \* pending setTimeout(() => longPollCycle(), d), per delay d
    pollFetched,     \* number of fetch() calls longPollCycle has made
    pollRespLog,     \* branch taken by the second .then for each payload, in order
    pollDisplayLog,  \* alerts handed to displayAlert, in order
    pollErrors,      \* number of showErrorMessage calls
    pollProduced,    \* number of responses the server has produced
    pollTransit,     \* the responses produced and not yet settled at the
                     \* client, each by its number in the order of production
    pollDisplayOrder,   \* for each alert handed to displayAlert, the number of
                     \* the response that carried it
    \* ---- persistent-id long-poll client (scriptlong.js)
    now,             \* Date.now()
    storage,         \* localStorage entry 'longpoll_client_id'
    persistentClientId, \* let persistentClientId
    retryCount,      \* let retryCount
    lpInflight,      \* fetch() promises of longPollForAlerts not yet settled
    lpTimers,        \* pending setTimeout(() => longPollForAlerts(..), d) of
                     \* handleLongPollResponse, per delay d
    lpRetryTimers,   \* pending retry timers of the catch handler, per delay d
    lpFetched,       \* number of fetch() calls longPollForAlerts has made
    lpStarted,       \* number of window.startLongPolling calls
    retryDelayLog,   \* retryDelay of each catch since the last handled response
    idReturned,      \* what the last initializeClientId call returned
    idBefore,        \* what the call before that one returned
    idParts,         \* Date.now() and random part of the last generated id
    wiped,           \* the storage entry was removed since that call
    storageFault,    \* which localStorage method throws: "none", "get" or "set"
    lpLastId,        \* history: the client_id of the last poll or reset request
    \* ---- WebSocket client (part_001)
    socks,           \* readyState of every WebSocket created, in creation order;
                     \* let socket is the last one
    reconnectAttempts,  \* let reconnectAttempts
    alertsStarted,   \* let alertsStarted
    receivedAlertIds,   \* let receivedAlertIds
    wsTimers,        \* pending setTimeout(connectWebSocket, reconnectInterval)
    wsHandled,       \* number of messages onmessage has handled
    wsLog,           \* the 'alert' messages handled since receivedAlertIds was
                     \* last emptied: resolved alertId, whether displayAlert
                     \* was called, the socket that delivered it, and the
                     \* alert_id it carried
    wsSinceOpen,     \* WebSockets created by the reconnect timer since a
                     \* socket last opened
    unloaded,        \* the beforeunload handler has run
    startedSock,     \* history: the socket that was sent a start_alerts with no
                     \* stop_alerts after it and has not closed; 0 if none
    \* ---- WebSocket client with latency probing (scriptpush.js 805-1148);
    \* its socket, reconnectAttempts, alertsStarted and receivedAlertIds are
    \* the variables above
    pendingPings,    \* keys of let pendingPings
    pingTimers,      \* pings whose 5000 ms clean-up timer is pending
    pingsSent,       \* number of pings sent
    latencyCount,    \* latencyMeasurements.length
    startTimers,     \* pending 100 ms timers of socket.onopen
    \* ---- the request of the simple long-poll client (part_000 45-57) in time
    holdPhase,       \* "idle", "waiting", "responded" or "aborted"
    holdElapsed,     \* ms since the request was sent
    holdHint,        \* the timeout parameter of the request URL, in seconds
    holdDeadline,    \* the argument of AbortSignal.timeout, in ms
    holdCount,       \* requests sent
    \* ---- push-notification client (scriptpush.js 26-376)
    receivedAlerts,  \* let receivedAlerts: the alerts held, newest first; of an
                     \* alert its id and obj, the number of the notification
                     \* that made the object (0 for one loaded from storage)
    alertCounter,    \* let alertCounter
    alertsContainer, \* the .alert-item elements of alertsContainer in document
                     \* order: the id and obj of the alert, and the 'new' marker
    savedAlerts,     \* the ids of the list stored under 'receivedAlerts'
                     \* (empty when there is no entry)
    expiryTimers,    \* the pending 5000 ms timers of handleNotification, in the
                     \* order in which they fire
    notified,        \* history: number of notifications handled
    loadState        \* "pending", "loaded", or "failed" when
                     \* registerServiceWorker() rejected

pollVars == <<isPolling, pollInflight, pollTimers, pollFetched,
              pollRespLog, pollDisplayLog, pollErrors,
              pollProduced, pollTransit, pollDisplayOrder>>

longVars == <<storage, persistentClientId, retryCount, lpInflight, lpTimers,
              lpRetryTimers, lpFetched, lpStarted, retryDelayLog,
              idReturned, idBefore, idParts, wiped, storageFault, lpLastId>>

wsVars == <<startedSock, socks, reconnectAttempts, alertsStarted, receivedAlertIds,
            wsTimers, wsHandled, wsLog, wsSinceOpen, unloaded>>

probeVars == <<pendingPings, pingTimers, pingsSent, latencyCount, startTimers>>

holdVars == <<holdPhase, holdElapsed, holdHint, holdDeadline, holdCount>>

pushVars == <<receivedAlerts, alertCounter, alertsContainer, savedAlerts,
              expiryTimers, notified, loadState>>

vars == <<op, now, pollVars, longVars, wsVars, probeVars, holdVars, pushVars>>

---------------------------------------------------------------------------
(* Bounds of the model *)

\* fetch() calls one long-poll client may make in a run
MaxPolls == 3

\* WebSockets one page may create in a run
MaxSockets == 3

\* WebSockets one page may create in a run that receives no messages
MaxConnSockets == 7

\* messages the WebSocket client may handle in a run
MaxWsMsgs == 3

\* window.startLongPolling calls of one page
MaxChains == 2

\* the last value of Date.now() in a run
MaxClock == 1

\* pings one page may send in a run
MaxPings == 1

\* sockets the page with latency probing may create in a run
MaxProbeSockets == 2

\* notifications the push-notification page may handle in a run
MaxNotifications == 3

(* Values the server may put in a response *)
AlertIds == {"a1", "a2"}
Absent == "undefined"

---------------------------------------------------------------------------
(* Simple long-poll client: src/unnamed/part_000 *)

reconnectDelay == 1000

\* the delays longPollCycle passes to setTimeout
PollDelays == {100, 500, reconnectDelay, reconnectDelay * 3}

\* the JSON body of a response, as the if / else-if chain of the handler reads it
Payloads == [alert : AlertIds \cup {Absent}, timeout : BOOLEAN, error : BOOLEAN]

\* what the handlers of this page leave alone: the other pages' state
PollFrame == UNCHANGED <<now, longVars, wsVars, probeVars, holdVars, pushVars>>

NoTimers == [d \in PollDelays |-> 0]
TimerCount(t) == t[100] + t[500] + t[reconnectDelay] + t[reconnectDelay * 3]
\* a setTimeout call that is left out: a faulty variant
AddTimerDropped(t, d) == t
AddTimer(t, d) == [t EXCEPT ![d] = @ + 1]
DelTimer(t, d) == [t EXCEPT ![d] = @ - 1]

\* longPollCycle() without its isPolling guard: a faulty variant
LongPollCycleNoGuard(polling) ==
    /\ pollFetched < MaxPolls
    /\ pollInflight' = pollInflight + 1
    /\ pollFetched' = pollFetched + 1

\* longPollCycle() up to and including its fetch(); polling is the value of
\* isPolling when it is called
LongPollCycle(polling) ==
    IF ~polling
    THEN UNCHANGED <<pollInflight, pollFetched>>
    ELSE /\ pollFetched < MaxPolls
         /\ pollInflight' = pollInflight + 1
         /\ pollFetched' = pollFetched + 1

\* startLongPolling() without its isPolling guard: a faulty variant
StartLongPollingNoGuard ==
    /\ isPolling' = TRUE
    /\ LongPollCycle(TRUE)
    /\ op' = "startLongPolling"
    /\ UNCHANGED <<pollTimers, pollRespLog, pollDisplayLog, pollErrors,
                   pollProduced, pollTransit, pollDisplayOrder>>
    /\ PollFrame

\* startLongPolling(url)
StartLongPolling ==
    /\ IF isPolling
       THEN /\ op' = "startLongPolling:already active"
            /\ UNCHANGED pollVars
       ELSE /\ isPolling' = TRUE
            /\ LongPollCycle(TRUE)
            /\ op' = "startLongPolling"
            /\ UNCHANGED <<pollTimers, pollRespLog, pollDisplayLog, pollErrors,
                           pollProduced, pollTransit, pollDisplayOrder>>
    /\ PollFrame

\* stopLongPolling()
StopLongPolling ==
    /\ isPolling' = FALSE
    /\ op' = "stopLongPolling"
    /\ UNCHANGED <<pollInflight, pollTimers, pollFetched,
                   pollRespLog, pollDisplayLog, pollErrors,
                   pollProduced, pollTransit, pollDisplayOrder>>
    /\ PollFrame

\* a timer set by a response handler fires and runs longPollCycle
PollTimerFires(d) ==
    /\ pollTimers[d] > 0
    /\ pollTimers' = DelTimer(pollTimers, d)
    /\ LongPollCycle(isPolling)
    /\ op' = IF isPolling THEN "longPollCycle" ELSE "longPollCycle:stopped"
    /\ UNCHANGED <<isPolling, pollRespLog, pollDisplayLog, pollErrors,
                   pollProduced, pollTransit, pollDisplayOrder>>
    /\ PollFrame

\* the server produces the response to a request that has none yet; the
\* responses of concurrent requests travel on connections of their own and
\* may arrive in any order
ServerResponds ==
    /\ Cardinality(pollTransit) < pollInflight
    /\ pollProduced' = pollProduced + 1
    /\ pollTransit' = pollTransit \cup {pollProduced + 1}
    /\ op' = "server responds"
    /\ UNCHANGED <<isPolling, pollInflight, pollTimers, pollFetched, pollRespLog,
                   pollDisplayLog, pollErrors, pollDisplayOrder>>
    /\ PollFrame

\* the branch of the if / else-if chain a payload takes: the alert it carries,
\* or "timeout", "error", "unexpected"
PollBranch(data) ==
    IF data.alert # Absent THEN data.alert
    ELSE IF data.timeout THEN "timeout"
    ELSE IF data.error THEN "error"
    ELSE "unexpected"

\* the delay the second .then passes to setTimeout for a payload
PollNextDelay(data) ==
    IF data.alert # Absent THEN 100
    ELSE IF data.timeout THEN 500
    ELSE reconnectDelay

\* the response of a request arrives with HTTP 2xx and a JSON body:
\* .then(data => ...)
PollResponse(data) ==
    /\ pollInflight > 0
    /\ \E n \in pollTransit :
          /\ pollTransit' = pollTransit \ {n}
          /\ pollDisplayOrder' = IF data.alert # Absent
                                 THEN Append(pollDisplayOrder, n)
                                 ELSE pollDisplayOrder
    /\ pollInflight' = pollInflight - 1
    /\ pollRespLog' = Append(pollRespLog, PollBranch(data))
    /\ pollDisplayLog' = IF data.alert # Absent
                         THEN Append(pollDisplayLog, data.alert)
                         ELSE pollDisplayLog
    /\ pollErrors' = IF PollBranch(data) = "error"
                     THEN pollErrors + 1
                     ELSE pollErrors
    /\ pollTimers' = AddTimer(pollTimers, PollNextDelay(data))
    /\ op' = IF data.alert # Absent THEN "poll:alert" ELSE "poll:other"
    /\ UNCHANGED <<isPolling, pollFetched, pollProduced>>
    /\ PollFrame

\* a request fails: it gets no response (abort, network error), or its
\* response has an HTTP status that is not ok: .catch
PollFailure ==
    /\ pollInflight > 0
    /\ \/ /\ Cardinality(pollTransit) < pollInflight
          /\ pollTransit' = pollTransit
       \/ \E n \in pollTransit : pollTransit' = pollTransit \ {n}
    /\ pollInflight' = pollInflight - 1
    /\ pollTimers' = IF isPolling
                     THEN AddTimer(pollTimers, reconnectDelay * 3)
                     ELSE pollTimers
    /\ op' = "poll:catch"
    /\ UNCHANGED <<isPolling, pollFetched, pollRespLog, pollDisplayLog, pollErrors,
                   pollProduced, pollDisplayOrder>>
    /\ PollFrame

NextPoll ==
    \/ StartLongPolling
    \/ StopLongPolling
    \/ \E d \in PollDelays : PollTimerFires(d)
    \/ ServerResponds
    \/ \E data \in Payloads : PollResponse(data)
    \/ PollFailure

---------------------------------------------------------------------------
(* Persistent-id long-poll client: src/static/js/scriptlong.js *)

\* what the handlers of this page leave alone: the other pages' state
LongFrame == UNCHANGED <<now, pollVars, wsVars, probeVars, holdVars, pushVars>>

\* Date.now() advances
Tick ==
    /\ now < MaxClock
    /\ now' = now + 1
    /\ op' = "tick"
    /\ UNCHANGED <<pollVars, longVars, wsVars, probeVars, holdVars, pushVars>>

\* Math.random().toString(36).substr(2, 9)
RandomParts == {"k3x9f", "p0q"}

\* getBrowserFingerprint(): up to six letters and digits, fixed for a browser
BrowserFingerprint == "iVBORw"

\* the template literal `client_${timestamp}_${randomPart}_${browserFingerprint}`
MakeClientId(timestamp, randomPart) ==
    "client_" \o ToString(timestamp) \o "_" \o randomPart \o "_" \o BrowserFingerprint

\* whether initializeClientId() throws: localStorage.getItem throws, or
\* localStorage.setItem throws when a new id is to be stored
InitializeThrows ==
    \/ storageFault = "get"
    \/ storageFault = "set" /\ storage = Absent

\* initializeClientId() that ignores the stored id: a faulty variant
InitializeClientIdAlwaysNew(randomPart) ==
    /\ persistentClientId' = MakeClientId(now, randomPart)
    /\ storage' = persistentClientId'
    /\ idParts' = <<now, randomPart>>
    /\ idReturned' = persistentClientId'
    /\ idBefore' = idReturned
    /\ wiped' = FALSE

\* initializeClientId(), with randomPart what Math.random() gives if it is asked
InitializeClientId(randomPart) ==
    IF storageFault = "get"
    THEN UNCHANGED <<persistentClientId, storage, idParts, idReturned, idBefore,
                     wiped>>
    ELSE IF storageFault = "set" /\ storage = Absent
    THEN /\ persistentClientId' = MakeClientId(now, randomPart)
         /\ UNCHANGED <<storage, idParts, idReturned, idBefore, wiped>>
    ELSE /\ IF storage = Absent
            THEN /\ persistentClientId' = MakeClientId(now, randomPart)
                 /\ storage' = persistentClientId'
                 /\ idParts' = <<now, randomPart>>
            ELSE /\ persistentClientId' = storage
                 /\ UNCHANGED <<storage, idParts>>
         /\ idReturned' = persistentClientId'
         /\ idBefore' = idReturned
         /\ wiped' = FALSE

\* a call of initializeClientId: the DOMContentLoaded handler, or any script
CallInitializeClientId ==
    /\ \E randomPart \in RandomParts : InitializeClientId(randomPart)
    /\ op' = IF InitializeThrows THEN "initializeClientId:throws"
             ELSE IF storage = Absent THEN "initializeClientId:new"
             ELSE "initializeClientId:resume"
    /\ UNCHANGED <<retryCount, lpInflight, lpTimers, lpRetryTimers, lpFetched,
                   lpStarted, retryDelayLog, storageFault>>
    /\ UNCHANGED lpLastId
    /\ LongFrame

\* the user or another script removes the localStorage entry
WipeStorage ==
    /\ storage # Absent
    /\ storage' = Absent
    /\ wiped' = TRUE
    /\ op' = "wipe"
    /\ UNCHANGED <<persistentClientId, retryCount, lpInflight, lpTimers,
                   lpRetryTimers, lpFetched, lpStarted, retryDelayLog,
                   idReturned, idBefore, idParts, storageFault>>
    /\ UNCHANGED lpLastId
    /\ LongFrame

\* localStorage is unavailable to the page from before its first poll:
\* getItem throws (access denied), or setItem throws (no quota)
StorageFails(f) ==
    /\ storageFault = "none"
    /\ lpFetched = 0
    /\ storageFault' = f
    /\ op' = "storage fails"
    /\ UNCHANGED <<storage, persistentClientId, retryCount, lpInflight, lpTimers,
                   lpRetryTimers, lpFetched, lpStarted, retryDelayLog,
                   idReturned, idBefore, idParts, wiped>>
    /\ UNCHANGED lpLastId
    /\ LongFrame

\* the delays handleLongPollResponse passes to setTimeout
LongDelays == {50, 100, 1000, 3000}

\* the cap and the base of the retry delay of the catch handler
RetryCap == 5000
RetryBase == 1000

RECURSIVE Pow2(_)
Pow2(n) == IF n = 0 THEN 1 ELSE 2 * Pow2(n - 1)

Min(a, b) == IF a < b THEN a ELSE b

\* Math.min(5000, 1000 * Math.pow(2, n))
RetryDelay(n) == Min(RetryCap, RetryBase * Pow2(n))

\* the values RetryDelay takes
RetryDelays == {RetryBase, 2 * RetryBase, 4 * RetryBase, RetryCap}

\* the JSON body of a response, as handleLongPollResponse reads it
LongPayloads == [alert : AlertIds \cup {Absent}, has_more : BOOLEAN,
                 timeout : BOOLEAN, error : BOOLEAN]

\* handleLongPollResponse that waits as long after an alert with has_more as
\* after one without: a faulty variant
LongNextDelayNoDrain(data) ==
    IF data.alert # Absent THEN 1000
    ELSE IF data.timeout THEN 50
    ELSE IF data.error THEN 3000
    ELSE 1000

\* the delay handleLongPollResponse passes to setTimeout for a payload
LongNextDelay(data) ==
    IF data.alert # Absent THEN (IF data.has_more THEN 100 ELSE 1000)
    ELSE IF data.timeout THEN 50
    ELSE IF data.error THEN 3000
    ELSE 1000

\* the branch handleLongPollResponse takes for a payload
LongBranch(data) ==
    IF data.alert # Absent THEN "alert"
    ELSE IF data.timeout THEN "timeout"
    ELSE IF data.error THEN "error"
    ELSE "unexpected"

\* whether longPollForAlerts(serverUrl) ends in the exception of
\* initializeClientId, before its fetch()
LongPollThrows == persistentClientId = Absent /\ InitializeThrows

\* longPollForAlerts(serverUrl) that calls initializeClientId() before every
\* request: a faulty variant
LongPollForAlertsAlwaysInit ==
    /\ lpFetched < MaxPolls
    /\ \E randomPart \in RandomParts : InitializeClientId(randomPart)
    /\ IF InitializeThrows
       THEN UNCHANGED <<lpInflight, lpFetched, lpLastId>>
       ELSE /\ lpInflight' = lpInflight + 1
            /\ lpFetched' = lpFetched + 1
            /\ lpLastId' = persistentClientId'

\* longPollForAlerts(serverUrl) up to and including its fetch(), whose URL
\* carries client_id: persistentClientId
LongPollForAlerts ==
    /\ lpFetched < MaxPolls
    /\ IF persistentClientId = Absent
       THEN \E randomPart \in RandomParts : InitializeClientId(randomPart)
       ELSE UNCHANGED <<persistentClientId, storage, idParts, idReturned, idBefore,
                       wiped>>
    /\ IF LongPollThrows
       THEN UNCHANGED <<lpInflight, lpFetched, lpLastId>>
       ELSE /\ lpInflight' = lpInflight + 1
            /\ lpFetched' = lpFetched + 1
            /\ lpLastId' = persistentClientId'

\* window.startLongPolling(url): the page template, or the load handler's timer
WindowStartLongPolling ==
    /\ lpStarted < MaxChains
    /\ lpStarted' = lpStarted + 1
    /\ LongPollForAlerts
    /\ op' = IF LongPollThrows THEN "window.startLongPolling:throws"
             ELSE "window.startLongPolling"
    /\ UNCHANGED <<retryCount, lpTimers, lpRetryTimers, retryDelayLog,
                   storageFault>>
    /\ LongFrame

\* a timer set by handleLongPollResponse fires
LongTimerFires(d) ==
    /\ lpTimers[d] > 0
    /\ lpTimers' = [lpTimers EXCEPT ![d] = @ - 1]
    /\ LongPollForAlerts
    /\ op' = "longPollForAlerts"
    /\ UNCHANGED <<retryCount, lpRetryTimers, lpStarted, retryDelayLog,
                   storageFault>>
    /\ LongFrame

\* a request is answered with HTTP 2xx and a JSON body: handleLongPollResponse
HandleLongPollResponse(data) ==
    /\ lpInflight > 0
    /\ lpInflight' = lpInflight - 1
    /\ lpTimers' = [lpTimers EXCEPT ![LongNextDelay(data)] = @ + 1]
    /\ retryDelayLog' = <<>>
    /\ op' = "handleLongPollResponse:" \o LongBranch(data)
    /\ UNCHANGED <<storage, persistentClientId, retryCount, lpRetryTimers,
                   lpFetched, lpStarted, idReturned, idBefore, idParts, wiped,
                   storageFault>>
    /\ UNCHANGED lpLastId
    /\ LongFrame

\* a request fails (network error, HTTP status not ok): the catch handler;
\* getRetryCount() returns retryCount and then increments it
LongPollCatch ==
    /\ lpInflight > 0
    /\ lpInflight' = lpInflight - 1
    /\ retryCount' = retryCount + 1
    /\ lpRetryTimers' = [lpRetryTimers EXCEPT ![RetryDelay(retryCount)] = @ + 1]
    /\ retryDelayLog' = Append(retryDelayLog, RetryDelay(retryCount))
    /\ op' = "longPollForAlerts:catch"
    /\ UNCHANGED <<storage, persistentClientId, lpTimers, lpFetched, lpStarted,
                   idReturned, idBefore, idParts, wiped, storageFault>>
    /\ UNCHANGED lpLastId
    /\ LongFrame

\* a retry timer fires: resetRetryCount(); longPollForAlerts(serverUrl)
RetryTimerFires(d) ==
    /\ lpRetryTimers[d] > 0
    /\ lpRetryTimers' = [lpRetryTimers EXCEPT ![d] = @ - 1]
    /\ retryCount' = 0
    /\ LongPollForAlerts
    /\ op' = "longPollForAlerts:retry"
    /\ UNCHANGED <<lpTimers, lpStarted, retryDelayLog, storageFault>>
    /\ LongFrame

\* resetClientPosition(): a POST with body client_id=persistentClientId, if
\* there is an id
ResetClientPosition ==
    /\ lpLastId' = IF persistentClientId # Absent THEN persistentClientId
                   ELSE lpLastId
    /\ op' = IF persistentClientId # Absent THEN "resetClientPosition:sent"
             ELSE "resetClientPosition"
    /\ UNCHANGED <<storage, persistentClientId, retryCount, lpInflight, lpTimers,
                   lpRetryTimers, lpFetched, lpStarted, retryDelayLog,
                   idReturned, idBefore, idParts, wiped, storageFault>>
    /\ LongFrame

\* the first DOMContentLoaded listener of the page (the one registered at
\* the top of the file): longPollForAlerts(..), which starts a chain
DomContentLoadedPoll ==
    /\ lpStarted = 0
    /\ lpStarted' = 1
    /\ LongPollForAlerts
    /\ op' = IF LongPollThrows THEN "DOMContentLoaded:longPollForAlerts:throws"
             ELSE "DOMContentLoaded:longPollForAlerts"
    /\ UNCHANGED <<retryCount, lpTimers, lpRetryTimers, retryDelayLog,
                   storageFault>>
    /\ LongFrame

\* the second DOMContentLoaded listener, which runs right after the first:
\* initializeClientId()
DomContentLoadedInit ==
    /\ op \in {"DOMContentLoaded:longPollForAlerts",
               "DOMContentLoaded:longPollForAlerts:throws"}
    /\ \E randomPart \in RandomParts : InitializeClientId(randomPart)
    /\ op' = IF InitializeThrows THEN "DOMContentLoaded:initializeClientId:throws"
             ELSE "DOMContentLoaded:initializeClientId"
    /\ UNCHANGED <<retryCount, lpInflight, lpTimers, lpRetryTimers, lpFetched,
                   lpStarted, retryDelayLog, storageFault, lpLastId>>
    /\ LongFrame

\* one page session of the persistent-id client: initializeClientId() runs
\* where the page calls it, and polling is started again only after the page
\* has loaded
NextSession ==
    \/ Tick
    \/ WipeStorage
    \/ \E f \in {"get", "set"} : StorageFails(f)
    \/ DomContentLoadedPoll
    \/ DomContentLoadedInit
    \/ lpStarted > 0 /\ WindowStartLongPolling
    \/ \E d \in LongDelays : LongTimerFires(d)
    \/ \E data \in LongPayloads : HandleLongPollResponse(data)
    \/ LongPollCatch
    \/ \E d \in RetryDelays : RetryTimerFires(d)
    \/ ResetClientPosition

\* the steps that bear on the identity of the persistent-id client: the
\* calls of initializeClientId, by a script or by the first longPollForAlerts
\* of a chain, and what happens to localStorage between them
NextIdentity ==
    \/ Tick
    \/ CallInitializeClientId
    \/ WipeStorage
    \/ \E f \in {"get", "set"} : StorageFails(f)
    \/ WindowStartLongPolling

NextLong ==
    \/ Tick
    \/ CallInitializeClientId
    \/ WipeStorage
    \/ \E f \in {"get", "set"} : StorageFails(f)
    \/ WindowStartLongPolling
    \/ \E d \in LongDelays : LongTimerFires(d)
    \/ \E data \in LongPayloads : HandleLongPollResponse(data)
    \/ LongPollCatch
    \/ \E d \in RetryDelays : RetryTimerFires(d)

---------------------------------------------------------------------------
(* WebSocket client: src/unnamed/part_001 *)

maxReconnectAttempts == 5

\* what the handlers of this page leave alone: the other pages' state
WsFrame == UNCHANGED <<pollVars, longVars, probeVars, holdVars, pushVars>>

\* a field sequence that the message does not carry
NoSequence == -1

\* the messages a server may send: e.data after JSON.parse, or text that
\* JSON.parse rejects (parses = FALSE)
WsMessages ==
    [parses : {TRUE}, type : {"alert"}, alert_id : {"T_1", Absent},
     title : {"T"}, sequence : {1}]
    \cup [parses : {TRUE}, type : {"alert"}, alert_id : {Absent},
          title : {Absent}, sequence : {NoSequence}]
    \cup [parses : {TRUE}, type : {"error", "status", Absent},
          alert_id : {Absent}, title : {"T"}, sequence : {NoSequence}]
    \cup [parses : {FALSE}, type : {Absent}, alert_id : {Absent},
          title : {Absent}, sequence : {NoSequence}]

\* `${x}` of a number field, or of a field that is not there
Interpolate(x) == IF x = NoSequence THEN "undefined" ELSE ToString(x)

\* const alertId = data.alert_id || `${data.title}_${data.sequence}`
AlertKey(data) ==
    IF data.alert_id \notin {Absent, ""}
    THEN data.alert_id
    ELSE data.title \o "_" \o Interpolate(data.sequence)

\* const alertId = `legacy_${data.title}_${Date.now()}`
LegacyKey(data) == "legacy_" \o data.title \o "_" \o ToString(now)

\* socket && socket.readyState === WebSocket.OPEN
SocketOpen == Len(socks) > 0 /\ socks[Len(socks)] = "open"

\* socket.onopen of the i-th socket
WsOpen(i) ==
    /\ socks[i] = "connecting"
    /\ socks' = [socks EXCEPT ![i] = "open"]
    /\ reconnectAttempts' = 0
    /\ alertsStarted' = TRUE
    /\ wsSinceOpen' = 0
    /\ op' = IF alertsStarted THEN "onopen" ELSE "onopen:start_alerts"
    /\ UNCHANGED <<now, receivedAlertIds, wsTimers, wsHandled, wsLog, unloaded>>
    /\ startedSock' = IF alertsStarted THEN startedSock ELSE Len(socks)
    /\ WsFrame

\* socket.onmessage that never records an id: a faulty variant
OnMessageIdsNoDedup(data) == receivedAlertIds

\* socket.onmessage that forgets the recorded ids when JSON.parse fails: a
\* faulty variant
OnMessageIdsLostOnParseError(data) ==
    IF ~data.parses THEN {}
    ELSE IF data.type = "alert" THEN receivedAlertIds \cup {AlertKey(data)}
    ELSE IF data.type \in {"error", "status"} THEN receivedAlertIds
    ELSE receivedAlertIds \cup {LegacyKey(data)}

\* socket.onmessage that lets a status message fall through to the legacy
\* branch: a faulty variant
OnMessageIdsStatusAsLegacy(data) ==
    IF ~data.parses THEN receivedAlertIds
    ELSE IF data.type = "alert" THEN receivedAlertIds \cup {AlertKey(data)}
    ELSE IF data.type = "error" THEN receivedAlertIds
    ELSE receivedAlertIds \cup {LegacyKey(data)}

\* what socket.onmessage does to receivedAlertIds
OnMessageIds(data) ==
    IF ~data.parses THEN receivedAlertIds
    ELSE IF data.type = "alert" THEN receivedAlertIds \cup {AlertKey(data)}
    ELSE IF data.type \in {"error", "status"} THEN receivedAlertIds
    ELSE receivedAlertIds \cup {LegacyKey(data)}

\* socket.onmessage of the i-th socket
WsMessage(i, data) ==
    /\ socks[i] = "open"
    /\ wsHandled < MaxWsMsgs
    /\ wsHandled' = wsHandled + 1
    /\ receivedAlertIds' = OnMessageIds(data)
    /\ wsLog' = IF data.parses /\ data.type = "alert"
                THEN Append(wsLog, [key |-> AlertKey(data),
                                    shown |-> AlertKey(data) \notin receivedAlertIds,
                                    sock |-> i,
                                    id |-> data.alert_id])
                ELSE wsLog
    /\ op' = IF ~data.parses THEN "onmessage:parse error"
             ELSE IF data.type = "alert" THEN "onmessage:alert"
             ELSE IF data.type = "error" THEN "onmessage:error"
             ELSE IF data.type = "status" THEN "onmessage:status"
             ELSE "onmessage:legacy"
    /\ UNCHANGED <<now, socks, reconnectAttempts, alertsStarted, wsTimers,
                   wsSinceOpen, unloaded>>
    /\ UNCHANGED startedSock
    /\ WsFrame

\* the close codes a connection that was open may end with
CloseCodes == {1000, 1001, 1006}

\* the close events the i-th socket may get: any code when the server ends an
\* open connection, 1006 for a connection that was never established, and
\* 1000 or 1006 after the page's own socket.close(1000)
MayClose(i, code) ==
    \/ socks[i] = "open"
    \/ socks[i] \in {"connecting", "aborting"} /\ code = 1006
    \/ socks[i] = "closing" /\ code \in {1000, 1006}

\* socket.onerror that schedules a reconnect of its own: a faulty variant
WsErrorReconnects(i) ==
    /\ socks[i] \in {"connecting", "open"}
    /\ wsTimers' = wsTimers + 1
    /\ op' = "onerror"
    /\ UNCHANGED <<now, socks, reconnectAttempts, alertsStarted,
                   receivedAlertIds, wsHandled, wsLog, wsSinceOpen, unloaded>>
    /\ UNCHANGED startedSock
    /\ WsFrame

\* socket.onerror of the i-th socket: a status update and showErrorMessage
WsError(i) ==
    /\ socks[i] \in {"connecting", "open"}
    /\ op' = "onerror"
    /\ UNCHANGED <<now, wsVars>>
    /\ WsFrame

\* socket.onclose that starts every connection with an empty
\* receivedAlertIds: a faulty variant
WsCloseForgetsIds(i, code) ==
    /\ MayClose(i, code)
    /\ socks' = [socks EXCEPT ![i] = "closed"]
    /\ alertsStarted' = FALSE
    /\ receivedAlertIds' = {}
    /\ IF code # 1000 /\ reconnectAttempts < maxReconnectAttempts
       THEN /\ reconnectAttempts' = reconnectAttempts + 1
            /\ wsTimers' = wsTimers + 1
            /\ op' = "onclose:reconnect"
       ELSE /\ UNCHANGED <<reconnectAttempts, wsTimers>>
            /\ op' = IF reconnectAttempts >= maxReconnectAttempts
                     THEN "onclose:gave up"
                     ELSE "onclose"
    /\ UNCHANGED <<now, wsHandled, wsLog, wsSinceOpen, unloaded>>
    /\ startedSock' = IF startedSock = i THEN 0 ELSE startedSock
    /\ WsFrame

\* socket.onclose that reconnects whatever reconnectAttempts is: a faulty
\* variant
WsCloseUnbounded(i, code) ==
    /\ MayClose(i, code)
    /\ socks' = [socks EXCEPT ![i] = "closed"]
    /\ alertsStarted' = FALSE
    /\ IF code # 1000
       THEN /\ reconnectAttempts' = reconnectAttempts + 1
            /\ wsTimers' = wsTimers + 1
            /\ op' = "onclose:reconnect"
       ELSE /\ UNCHANGED <<reconnectAttempts, wsTimers>>
            /\ op' = "onclose"
    /\ UNCHANGED <<now, receivedAlertIds, wsHandled, wsLog, wsSinceOpen, unloaded>>
    /\ startedSock' = IF startedSock = i THEN 0 ELSE startedSock
    /\ WsFrame

\* socket.onclose that counts a close as an attempt whether or not it
\* schedules a reconnect: a faulty variant
WsCloseCountsEveryClose(i, code) ==
    /\ MayClose(i, code)
    /\ socks' = [socks EXCEPT ![i] = "closed"]
    /\ alertsStarted' = FALSE
    /\ reconnectAttempts' = IF reconnectAttempts < maxReconnectAttempts
                            THEN reconnectAttempts + 1
                            ELSE reconnectAttempts
    /\ IF code # 1000 /\ reconnectAttempts < maxReconnectAttempts
       THEN /\ wsTimers' = wsTimers + 1
            /\ op' = "onclose:reconnect"
       ELSE /\ UNCHANGED wsTimers
            /\ op' = IF reconnectAttempts >= maxReconnectAttempts
                     THEN "onclose:gave up"
                     ELSE "onclose"
    /\ UNCHANGED <<now, receivedAlertIds, wsHandled, wsLog, wsSinceOpen, unloaded>>
    /\ startedSock' = IF startedSock = i THEN 0 ELSE startedSock
    /\ WsFrame

\* socket.onclose of the i-th socket, with e.code = code
WsClose(i, code) ==
    /\ MayClose(i, code)
    /\ socks' = [socks EXCEPT ![i] = "closed"]
    /\ alertsStarted' = FALSE
    /\ IF code # 1000 /\ reconnectAttempts < maxReconnectAttempts
       THEN /\ reconnectAttempts' = reconnectAttempts + 1
            /\ wsTimers' = wsTimers + 1
            /\ op' = "onclose:reconnect"
       ELSE /\ UNCHANGED <<reconnectAttempts, wsTimers>>
            /\ op' = IF reconnectAttempts >= maxReconnectAttempts
                     THEN "onclose:gave up"
                     ELSE "onclose"
    /\ UNCHANGED <<now, receivedAlertIds, wsHandled, wsLog, wsSinceOpen, unloaded>>
    /\ startedSock' = IF startedSock = i THEN 0 ELSE startedSock
    /\ WsFrame

\* the reconnect timer fires, in a page that is not unloaded and has created
\* fewer than limit sockets: connectWebSocket()
ConnectWebSocketWithin(limit) ==
    /\ wsTimers > 0
    /\ ~unloaded
    /\ Len(socks) < limit
    /\ wsTimers' = wsTimers - 1
    /\ socks' = Append(socks, "connecting")
    /\ wsSinceOpen' = wsSinceOpen + 1
    /\ op' = "connectWebSocket"
    /\ UNCHANGED <<now, reconnectAttempts, alertsStarted, receivedAlertIds,
                   wsHandled, wsLog, unloaded>>
    /\ UNCHANGED startedSock
    /\ WsFrame

ConnectWebSocket == ConnectWebSocketWithin(MaxSockets)

\* the same in a page that receives no messages
Reconnect == ConnectWebSocketWithin(MaxConnSockets)

\* the beforeunload handler: socket.close(1000, 'Page unloading'), which
\* starts the closing handshake of an open socket and fails a connecting one
BeforeUnload ==
    /\ ~unloaded
    /\ unloaded' = TRUE
    /\ socks' = [i \in 1..Len(socks) |->
                   IF i < Len(socks) THEN socks[i]
                   ELSE IF socks[i] = "open" THEN "closing"
                   ELSE IF socks[i] = "connecting" THEN "aborting"
                   ELSE socks[i]]
    /\ op' = "beforeunload"
    /\ UNCHANGED <<now, reconnectAttempts, alertsStarted, receivedAlertIds,
                   wsTimers, wsHandled, wsLog, wsSinceOpen>>
    /\ UNCHANGED startedSock
    /\ WsFrame

\* stopAlerts()
StopAlerts ==
    /\ alertsStarted' = IF SocketOpen THEN FALSE ELSE alertsStarted
    /\ op' = IF SocketOpen THEN "stopAlerts:stop_alerts" ELSE "stopAlerts"
    /\ UNCHANGED <<now, socks, reconnectAttempts, receivedAlertIds, wsTimers,
                   wsHandled, wsLog, wsSinceOpen, unloaded>>
    /\ startedSock' = IF SocketOpen THEN 0 ELSE startedSock
    /\ WsFrame

\* restartAlerts() without receivedAlertIds.clear(): a faulty variant
RestartAlertsKeepsIds ==
    /\ IF SocketOpen /\ ~alertsStarted
       THEN /\ alertsStarted' = TRUE
            /\ wsLog' = <<>>
            /\ op' = "restartAlerts:start_alerts"
            /\ UNCHANGED receivedAlertIds
       ELSE /\ UNCHANGED <<alertsStarted, receivedAlertIds, wsLog>>
            /\ op' = "restartAlerts"
    /\ UNCHANGED <<now, socks, reconnectAttempts, wsTimers, wsHandled,
                   wsSinceOpen, unloaded>>
    /\ startedSock' = IF SocketOpen /\ ~alertsStarted THEN Len(socks) ELSE startedSock
    /\ WsFrame

\* restartAlerts()
RestartAlerts ==
    /\ IF SocketOpen /\ ~alertsStarted
       THEN /\ alertsStarted' = TRUE
            /\ receivedAlertIds' = {}
            /\ wsLog' = <<>>
            /\ op' = "restartAlerts:start_alerts"
       ELSE /\ UNCHANGED <<alertsStarted, receivedAlertIds, wsLog>>
            /\ op' = "restartAlerts"
    /\ UNCHANGED <<now, socks, reconnectAttempts, wsTimers, wsHandled,
                   wsSinceOpen, unloaded>>
    /\ startedSock' = IF SocketOpen /\ ~alertsStarted THEN Len(socks) ELSE startedSock
    /\ WsFrame

NextWS ==
    \/ Tick
    \/ \E i \in 1..Len(socks) : WsOpen(i)
    \/ \E i \in 1..Len(socks) : WsError(i)
    \/ \E i \in 1..Len(socks) : \E data \in WsMessages : WsMessage(i, data)
    \/ \E i \in 1..Len(socks) : \E code \in CloseCodes : WsClose(i, code)
    \/ ConnectWebSocket
    \/ StopAlerts
    \/ RestartAlerts

\* the WebSocket page when the server sends no messages
NextWSConn ==
    \/ \E i \in 1..Len(socks) : WsOpen(i)
    \/ \E i \in 1..Len(socks) : WsError(i)
    \/ \E i \in 1..Len(socks) : \E code \in CloseCodes : WsClose(i, code)
    \/ Reconnect
    \/ BeforeUnload
    \/ StopAlerts
    \/ RestartAlerts

---------------------------------------------------------------------------
(* The WebSocket client with latency probing (scriptpush.js 805-1148) *)

\* what the handlers of this page leave alone
ProbeFrame == UNCHANGED <<now, pollVars, longVars, holdVars, pushVars>>

\* latencyMeasurements keeps its last 100 entries
LatencyWindow == 100

\* the messages a server may send to this client: those of WsMessages, and
\* 'pong' messages, whose ping_id 0 is one that no ping carried
ProbeMessages ==
    {m \in WsMessages : m.parses /\ m.type = "alert" => m.alert_id # Absent}
    \cup [parses : {TRUE}, type : {"pong"}, ping_id : 0..MaxPings]

\* socket.onopen of the i-th socket
ProbeOpen(i) ==
    /\ socks[i] = "connecting"
    /\ socks' = [socks EXCEPT ![i] = "open"]
    /\ reconnectAttempts' = 0
    /\ wsSinceOpen' = 0
    /\ startTimers' = startTimers + 1
    /\ op' = "onopen"
    /\ UNCHANGED <<alertsStarted, receivedAlertIds, wsTimers, wsHandled, wsLog,
                   unloaded, pendingPings, pingTimers, pingsSent, latencyCount>>
    /\ UNCHANGED startedSock
    /\ ProbeFrame

\* a start timer that does not look at alertsStarted: a faulty variant
StartAlertsTimerUnguarded ==
    /\ startTimers > 0
    /\ ~unloaded
    /\ startTimers' = startTimers - 1
    /\ IF SocketOpen
       THEN alertsStarted' = TRUE /\ op' = "start timer:start_alerts"
       ELSE alertsStarted' = alertsStarted /\ op' = "start timer"
    /\ UNCHANGED <<socks, reconnectAttempts, receivedAlertIds, wsTimers,
                   wsHandled, wsLog, wsSinceOpen, unloaded, pendingPings,
                   pingTimers, pingsSent, latencyCount>>
    /\ startedSock' = IF SocketOpen THEN Len(socks) ELSE startedSock
    /\ ProbeFrame

\* the 100 ms timer of socket.onopen fires
StartAlertsTimer ==
    /\ startTimers > 0
    /\ ~unloaded
    /\ startTimers' = startTimers - 1
    /\ IF ~alertsStarted /\ SocketOpen
       THEN alertsStarted' = TRUE /\ op' = "start timer:start_alerts"
       ELSE alertsStarted' = alertsStarted /\ op' = "start timer"
    /\ UNCHANGED <<socks, reconnectAttempts, receivedAlertIds, wsTimers,
                   wsHandled, wsLog, wsSinceOpen, unloaded, pendingPings,
                   pingTimers, pingsSent, latencyCount>>
    /\ startedSock' = IF ~alertsStarted /\ SocketOpen THEN Len(socks) ELSE startedSock
    /\ ProbeFrame

\* socket.onmessage that records the id of a pong as if it were an alert's:
\* a faulty variant
ProbeMessageIdsWithPong(data) ==
    IF ~data.parses THEN receivedAlertIds
    ELSE IF data.type = "alert" THEN receivedAlertIds \cup {AlertKey(data)}
    ELSE IF data.type = "pong"
    THEN receivedAlertIds \cup {"ping_" \o ToString(data.ping_id)}
    ELSE receivedAlertIds

\* what socket.onmessage does to receivedAlertIds
ProbeMessageIds(data) ==
    IF ~data.parses THEN receivedAlertIds
    ELSE IF data.type = "alert" THEN receivedAlertIds \cup {AlertKey(data)}
    ELSE receivedAlertIds

\* latencyMeasurements.push(..) and the slice(-100) that follows it
PushLatency(n) == IF n + 1 > LatencyWindow THEN LatencyWindow ELSE n + 1

\* socket.onmessage of the i-th socket; reasonable tells whether the latency
\* it computes lies in the range it records
ProbeMessage(i, data, reasonable) ==
    /\ socks[i] = "open"
    /\ wsHandled < MaxWsMsgs
    /\ wsHandled' = wsHandled + 1
    /\ receivedAlertIds' = ProbeMessageIds(data)
    /\ IF ~data.parses
       THEN /\ op' = "onmessage:parse error"
            /\ UNCHANGED <<wsLog, latencyCount, pendingPings>>
       ELSE IF data.type = "alert"
       THEN /\ wsLog' = Append(wsLog,
                           [key |-> AlertKey(data),
                            shown |-> AlertKey(data) \notin receivedAlertIds,
                            sock |-> i,
                            id |-> data.alert_id])
            /\ latencyCount' = IF AlertKey(data) \notin receivedAlertIds
                                  /\ reasonable
                               THEN PushLatency(latencyCount)
                               ELSE latencyCount
            /\ op' = "onmessage:alert"
            /\ UNCHANGED pendingPings
       ELSE IF data.type = "pong"
       THEN /\ pendingPings' = pendingPings \ {data.ping_id}
            /\ latencyCount' = IF data.ping_id \in pendingPings /\ reasonable
                               THEN PushLatency(latencyCount)
                               ELSE latencyCount
            /\ op' = IF data.ping_id \in pendingPings
                     THEN "onmessage:pong"
                     ELSE "onmessage:pong:unmatched"
            /\ UNCHANGED wsLog
       ELSE /\ op' = IF data.type = "error" THEN "onmessage:error"
                     ELSE IF data.type = "status" THEN "onmessage:status"
                     ELSE "onmessage:ignored"
            /\ UNCHANGED <<wsLog, latencyCount, pendingPings>>
    /\ UNCHANGED <<socks, reconnectAttempts, alertsStarted, wsTimers,
                   wsSinceOpen, unloaded, pingTimers, pingsSent, startTimers>>
    /\ UNCHANGED startedSock
    /\ ProbeFrame

\* socket.onclose of the i-th socket, with e.code = code
ProbeClose(i, code) ==
    /\ MayClose(i, code)
    /\ socks' = [socks EXCEPT ![i] = "closed"]
    /\ alertsStarted' = FALSE
    /\ IF code # 1000 /\ code # 1001 /\ reconnectAttempts < maxReconnectAttempts
       THEN /\ reconnectAttempts' = reconnectAttempts + 1
            /\ wsTimers' = wsTimers + 1
            /\ op' = "onclose:reconnect"
       ELSE /\ UNCHANGED <<reconnectAttempts, wsTimers>>
            /\ op' = IF reconnectAttempts >= maxReconnectAttempts
                     THEN "onclose:gave up"
                     ELSE "onclose"
    /\ UNCHANGED <<receivedAlertIds, wsHandled, wsLog, wsSinceOpen, unloaded>>
    /\ UNCHANGED probeVars
    /\ startedSock' = IF startedSock = i THEN 0 ELSE startedSock
    /\ ProbeFrame

\* sendPing(), which setInterval runs every 10000 ms, so that the Date.now()
\* in pingId tells any two pings apart: the id is the number of the ping
SendPing ==
    /\ pingsSent < MaxPings
    /\ ~unloaded
    /\ IF SocketOpen
       THEN /\ pingsSent' = pingsSent + 1
            /\ pendingPings' = pendingPings \cup {pingsSent + 1}
            /\ pingTimers' = pingTimers \cup {pingsSent + 1}
            /\ op' = "sendPing:ping"
       ELSE /\ UNCHANGED <<pingsSent, pendingPings, pingTimers>>
            /\ op' = "sendPing"
    /\ UNCHANGED <<wsVars, latencyCount, startTimers>>
    /\ ProbeFrame

\* a clean-up timer that leaves the id of its ping in pendingPings: a faulty
\* variant
PingTimeoutKeepsId(pingId) ==
    /\ pingId \in pingTimers
    /\ ~unloaded
    /\ pingTimers' = pingTimers \ {pingId}
    /\ op' = "ping timeout"
    /\ UNCHANGED <<wsVars, pendingPings, pingsSent, latencyCount, startTimers>>
    /\ ProbeFrame

\* the 5000 ms clean-up timer of the ping pingId fires
PingTimeout(pingId) ==
    /\ pingId \in pingTimers
    /\ ~unloaded
    /\ pingTimers' = pingTimers \ {pingId}
    /\ pendingPings' = pendingPings \ {pingId}
    /\ op' = IF pingId \in pendingPings THEN "ping timeout:deleted"
             ELSE "ping timeout"
    /\ UNCHANGED <<wsVars, pingsSent, latencyCount, startTimers>>
    /\ ProbeFrame

\* the beforeunload handler: for an open socket, send stop_alerts and then
\* socket.close(1000, 'Page unloading')
ProbeBeforeUnload ==
    /\ ~unloaded
    /\ unloaded' = TRUE
    /\ IF SocketOpen
       THEN /\ socks' = [socks EXCEPT ![Len(socks)] = "closing"]
            /\ op' = "beforeunload:stop_alerts"
       ELSE /\ socks' = socks
            /\ op' = "beforeunload"
    /\ UNCHANGED <<reconnectAttempts, alertsStarted, receivedAlertIds,
                   wsTimers, wsHandled, wsLog, wsSinceOpen>>
    /\ UNCHANGED probeVars
    /\ startedSock' = IF SocketOpen THEN 0 ELSE startedSock
    /\ ProbeFrame

\* the reconnect timer of this page fires: connectWebSocket()
ProbeReconnect == ConnectWebSocketWithin(MaxProbeSockets)

NextProbe ==
    \/ \E i \in 1..Len(socks) : ProbeOpen(i)
    \/ StartAlertsTimer
    \/ \E i \in 1..Len(socks) : \E data \in ProbeMessages :
          \E reasonable \in BOOLEAN : ProbeMessage(i, data, reasonable)
    \/ \E i \in 1..Len(socks) : WsError(i)
    \/ \E i \in 1..Len(socks) : \E code \in CloseCodes : ProbeClose(i, code)
    \/ ProbeReconnect
    \/ SendPing
    \/ \E pingId \in 1..MaxPings : PingTimeout(pingId)
    \/ ProbeBeforeUnload

---------------------------------------------------------------------------
(* One request of the simple long-poll client in time (part_000 45-57) *)

\* what the steps of a request leave alone
HoldFrame == UNCHANGED <<now, pollVars, longVars, wsVars, probeVars, pushVars>>

\* let pollTimeout = 20000
pollTimeout == 20000

\* the timeout parameter of pollUrl: Math.floor(pollTimeout / 1000), seconds
TimeoutHint(timeout) == timeout \div 1000

\* an abort deadline without the margin: a faulty variant
AbortDeadlineNoMargin(timeout) == timeout

\* the argument of AbortSignal.timeout: pollTimeout + 5000, milliseconds
AbortDeadline(timeout) == timeout + 5000

\* longPollCycle sends its request: the URL carries the hint, the fetch the
\* abort signal
HoldRequest ==
    /\ holdPhase # "waiting"
    /\ holdCount < MaxPolls
    /\ holdCount' = holdCount + 1
    /\ holdPhase' = "waiting"
    /\ holdElapsed' = 0
    /\ holdHint' = TimeoutHint(pollTimeout)
    /\ holdDeadline' = AbortDeadline(pollTimeout)
    /\ op' = "longPollCycle:fetch"
    /\ HoldFrame

\* a second passes while the request is held
HoldPasses ==
    /\ holdPhase = "waiting"
    /\ holdElapsed < holdDeadline
    /\ holdElapsed' = holdElapsed + 1000
    /\ op' = "second passes"
    /\ UNCHANGED <<holdPhase, holdHint, holdDeadline, holdCount>>
    /\ HoldFrame

\* the response arrives before the signal aborts the fetch: the .then branch
HoldResponse ==
    /\ holdPhase = "waiting"
    /\ holdElapsed < holdDeadline
    /\ holdPhase' = "responded"
    /\ op' = "fetch:response"
    /\ UNCHANGED <<holdElapsed, holdHint, holdDeadline, holdCount>>
    /\ HoldFrame

\* the signal of AbortSignal.timeout aborts the fetch: the .catch branch
HoldAbort ==
    /\ holdPhase = "waiting"
    /\ holdElapsed >= holdDeadline
    /\ holdPhase' = "aborted"
    /\ op' = "fetch:aborted"
    /\ UNCHANGED <<holdElapsed, holdHint, holdDeadline, holdCount>>
    /\ HoldFrame

NextHold == HoldRequest \/ HoldPasses \/ HoldResponse \/ HoldAbort

---------------------------------------------------------------------------
(* Push-notification client: src/static/js/scriptpush.js 26-376 *)

\* what the handlers of this page leave alone
PushFrame == UNCHANGED <<now, pollVars, longVars, wsVars, probeVars, holdVars>>

\* displayAlert keeps 50 .alert-item elements
AlertLimit == 50

\* the ids n, n-1, .., 1
Descending(n) == [k \in 1..n |-> n + 1 - k]

\* the lists an earlier session of the page may have left in storage: a short
\* one, and one that fills the display
EarlierSessions == {Descending(2), Descending(AlertLimit)}

\* the ids of a list of alerts
IdsOf(alerts) == [k \in 1..Len(alerts) |-> alerts[k].id]

\* the first n elements of a sequence: Array.prototype.slice(0, n)
SliceTo(seq, n) == SubSeq(seq, 1, IF Len(seq) < n THEN Len(seq) ELSE n)

\* Math.max(...) of a non-empty list of ids
MaxOf(ids) == CHOOSE m \in {ids[k] : k \in 1..Len(ids)} :
                  \A k \in 1..Len(ids) : ids[k] <= m

\* displayAlert(alert), from the list and the container it finds: the element
\* goes in front; beyond 50 elements the last one is removed and
\* receivedAlerts is cut to its first 50
DisplayAlert(alert, isNew, state) ==
    LET shown == <<[id |-> alert.id, obj |-> alert.obj, new |-> isNew]>>
                 \o state.container
    IN  IF Len(shown) > AlertLimit
        THEN [alerts |-> SliceTo(state.alerts, AlertLimit),
              container |-> SubSeq(shown, 1, Len(shown) - 1)]
        ELSE [alerts |-> state.alerts, container |-> shown]

\* a sequence in reverse order
Reverse(seq) == [k \in 1..Len(seq) |-> seq[Len(seq) + 1 - k]]

\* the forEach of loadAlertsFromStorage: every stored alert is pushed to
\* receivedAlerts and given to displayAlert, in the stored order.  Each
\* displayAlert puts its element in front and, beyond 50 elements, removes the
\* last one and cuts receivedAlerts to 50: so the container ends as the first
\* 50 of the stored alerts in reverse order followed by what was there, and
\* receivedAlerts as what was there followed by the stored alerts, cut to 50
\* if the container ever went beyond 50
LoadAll(state) ==
    LET loaded == [k \in 1..Len(savedAlerts) |-> [id |-> savedAlerts[k], obj |-> 0]]
        elements == [k \in 1..Len(loaded) |->
                        [id |-> loaded[k].id, obj |-> 0, new |-> FALSE]]
    IN  [alerts |-> IF Len(state.container) + Len(loaded) > AlertLimit
                    THEN SliceTo(state.alerts \o loaded, AlertLimit)
                    ELSE state.alerts \o loaded,
         container |-> SliceTo(Reverse(elements) \o state.container, AlertLimit)]

\* an earlier session of the page has left its alerts in localStorage
EarlierSession(ids) ==
    /\ loadState = "pending"
    /\ notified = 0
    /\ savedAlerts = <<>>
    /\ savedAlerts' = ids
    /\ op' = "earlier session"
    /\ UNCHANGED <<receivedAlerts, alertCounter, alertsContainer, expiryTimers,
                   notified, loadState>>
    /\ PushFrame

\* registerServiceWorker() resolved: loadExistingAlerts(), that is
\* loadAlertsFromStorage()
LoadExistingAlerts ==
    /\ loadState = "pending"
    /\ loadState' = "loaded"
    /\ LET loaded == LoadAll([alerts |-> receivedAlerts,
                                container |-> alertsContainer])
       IN  /\ receivedAlerts' = loaded.alerts
           /\ alertsContainer' = loaded.container
    /\ alertCounter' = IF Len(savedAlerts) > 0 THEN MaxOf(savedAlerts)
                       ELSE alertCounter
    /\ op' = "loadAlertsFromStorage"
    /\ UNCHANGED <<savedAlerts, expiryTimers, notified>>
    /\ PushFrame

\* registerServiceWorker() rejected: the .then of the DOMContentLoaded
\* listener does not run
RegisterServiceWorkerFails ==
    /\ loadState = "pending"
    /\ loadState' = "failed"
    /\ op' = "registerServiceWorker:rejected"
    /\ UNCHANGED <<receivedAlerts, alertCounter, alertsContainer, savedAlerts,
                   expiryTimers, notified>>
    /\ PushFrame

\* the id handleNotification gives a new alert: ++alertCounter
NextAlertId == alertCounter + 1

\* saveAlertsToStorage() that keeps what is stored when the list is full: a
\* faulty variant
SavedFromUnlessFull(alerts) ==
    IF Len(alerts) >= AlertLimit THEN savedAlerts ELSE IdsOf(alerts)

\* what saveAlertsToStorage() stores for a list of alerts, with a
\* localStorage that accepts the write
SavedFrom(alerts) == IdsOf(alerts)

\* handleNotification(payload), called by messaging.onMessage
HandleNotification ==
    /\ notified < MaxNotifications
    /\ notified' = notified + 1
    /\ alertCounter' = NextAlertId
    /\ LET alert == [id |-> NextAlertId, obj |-> notified + 1]
           shown == DisplayAlert(alert, TRUE,
                                 [alerts |-> <<alert>> \o receivedAlerts,
                                  container |-> alertsContainer])
       IN  /\ receivedAlerts' = shown.alerts
           /\ alertsContainer' = shown.container
           /\ savedAlerts' = SavedFrom(shown.alerts)
           /\ expiryTimers' = Append(expiryTimers, alert)
    /\ op' = "handleNotification"
    /\ UNCHANGED loadState
    /\ PushFrame

\* updateAlertDisplay(alertId): document.getElementById gives the first
\* element with that id, and its 'new' marker is removed
UpdateAlertDisplay(alertId) ==
    LET found == {k \in 1..Len(alertsContainer) : alertsContainer[k].id = alertId}
    IN  IF found = {} THEN alertsContainer
        ELSE LET first == CHOOSE k \in found : \A j \in found : k <= j
             IN  [alertsContainer EXCEPT ![first].new = FALSE]

\* the oldest pending 5000 ms timer of handleNotification fires
ExpiryTimerFires ==
    /\ expiryTimers # <<>>
    /\ expiryTimers' = Tail(expiryTimers)
    /\ alertsContainer' = UpdateAlertDisplay(Head(expiryTimers).id)
    /\ op' = "expiry timer"
    /\ UNCHANGED <<receivedAlerts, alertCounter, savedAlerts, notified, loadState>>
    /\ PushFrame

\* clearAlerts(), with confirmed what the user answers to confirm(..)
ClearAlerts(confirmed) ==
    /\ IF confirmed
       THEN /\ receivedAlerts' = <<>>
            /\ alertCounter' = 0
            /\ alertsContainer' = <<>>
            /\ savedAlerts' = <<>>
            /\ op' = "clearAlerts"
       ELSE /\ UNCHANGED <<receivedAlerts, alertCounter, alertsContainer,
                           savedAlerts>>
            /\ op' = "clearAlerts:cancelled"
    /\ UNCHANGED <<expiryTimers, notified, loadState>>
    /\ PushFrame

NextPush ==
    \/ \E ids \in EarlierSessions : EarlierSession(ids)
    \/ LoadExistingAlerts
    \/ RegisterServiceWorkerFails
    \/ HandleNotification
    \/ ExpiryTimerFires
    \/ \E confirmed \in BOOLEAN : ClearAlerts(confirmed)

---------------------------------------------------------------------------
Init ==
    /\ op = "load"
    /\ isPolling = FALSE
    /\ pollInflight = 0
    /\ pollTimers = NoTimers
    /\ pollFetched = 0
    /\ pollRespLog = <<>>
    /\ pollDisplayLog = <<>>
    /\ pollErrors = 0
    /\ pollProduced = 0
    /\ pollTransit = {}
    /\ pollDisplayOrder = <<>>
    /\ now = 0
    /\ \/ storage = Absent /\ idParts = <<>>
       \/ storage = MakeClientId(0, "k3x9f") /\ idParts = <<0, "k3x9f">>
    /\ persistentClientId = Absent
    /\ retryCount = 0
    /\ lpInflight = 0
    /\ lpTimers = [d \in LongDelays |-> 0]
    /\ lpRetryTimers = [d \in RetryDelays |-> 0]
    /\ lpFetched = 0
    /\ lpStarted = 0
    /\ retryDelayLog = <<>>
    /\ idReturned = Absent
    /\ idBefore = Absent
    /\ wiped = FALSE
    /\ storageFault = "none"
    /\ socks = <<"connecting">>
    /\ reconnectAttempts = 0
    /\ alertsStarted = FALSE
    /\ receivedAlertIds = {}
    /\ wsTimers = 0
    /\ wsHandled = 0
    /\ wsLog = <<>>
    /\ wsSinceOpen = 0
    /\ unloaded = FALSE
    /\ startedSock = 0
    /\ pendingPings = {}
    /\ pingTimers = {}
    /\ pingsSent = 0
    /\ latencyCount = 0
    /\ lpLastId = Absent
    /\ startTimers = 0
    /\ holdPhase = "idle"
    /\ holdElapsed = 0
    /\ holdHint = 0
    /\ holdDeadline = 0
    /\ holdCount = 0
    /\ receivedAlerts = <<>>
    /\ alertCounter = 0
    /\ alertsContainer = <<>>
    /\ savedAlerts = <<>>
    /\ expiryTimers = <<>>
    /\ notified = 0
    /\ loadState = "pending"

SpecPoll == Init /\ [][NextPoll]_vars

SpecLong == Init /\ [][NextLong]_vars

\* the persistent-id client with the scheduling the browser guarantees: a
\* timer that is pending fires; nothing makes a server answer or a
\* connection fail
SpecLongFair ==
    /\ Init
    /\ [][NextLong]_vars
    /\ WF_vars(\E d \in LongDelays : LongTimerFires(d))
    /\ WF_vars(\E d \in RetryDelays : RetryTimerFires(d))

SpecIdentity == Init /\ [][NextIdentity]_vars

SpecSession == Init /\ [][NextSession]_vars

SpecWS == Init /\ [][NextWS]_vars

SpecWSConn == Init /\ [][NextWSConn]_vars

SpecProbe == Init /\ [][NextProbe]_vars

SpecHold == Init /\ [][NextHold]_vars

SpecPush == Init /\ [][NextPush]_vars

\* no handler of the page has run yet
PollPageIdle == ~isPolling /\ pollFetched = 0
LongPageIdle == lpStarted = 0 /\ lpFetched = 0 /\ idReturned = Absent
WsPageIdle == socks = <<"connecting">>

\* the browser shows one of the three pages, the server answers every
\* request and keeps the connection open, and nobody stops the client
NextDelivery ==
    \/ LongPageIdle /\ WsPageIdle /\ StartLongPolling
    \/ \E d \in PollDelays : LongPageIdle /\ WsPageIdle /\ PollTimerFires(d)
    \/ LongPageIdle /\ WsPageIdle /\ ServerResponds
    \/ \E data \in Payloads : LongPageIdle /\ WsPageIdle /\ PollResponse(data)
    \/ PollPageIdle /\ WsPageIdle /\ WindowStartLongPolling
    \/ \E d \in LongDelays : PollPageIdle /\ WsPageIdle /\ LongTimerFires(d)
    \/ \E data \in LongPayloads :
          PollPageIdle /\ WsPageIdle /\ HandleLongPollResponse(data)
    \/ \E i \in 1..Len(socks) : PollPageIdle /\ LongPageIdle /\ WsOpen(i)
    \/ \E i \in 1..Len(socks) : \E data \in WsMessages :
          PollPageIdle /\ LongPageIdle /\ WsMessage(i, data)

SpecDelivery == Init /\ [][NextDelivery]_vars

\* the three pages side by side
Next == NextPoll \/ NextLong \/ NextWS

Spec == Init /\ [][Next]_vars

---------------------------------------------------------------------------
(* Properties of the WebSocket client, checked under SpecWS *)

\* C1: of the 'alert' messages handled since receivedAlertIds was last
\* emptied (no restartAlerts in between), over all connections, displayAlert
\* is called for the first delivery of each alertId and for no later one.
C1_DisplayedOncePerAlertId ==
    \A i \in 1..Len(wsLog) :
        wsLog[i].shown <=> (\A j \in 1..(i - 1) : wsLog[j].key # wsLog[i].key)

\* C1 witness: an alert shown on one connection was delivered again on a
\* later connection and suppressed there.
C1_Witness ==
    \E i, j \in 1..Len(wsLog) :
        /\ i < j
        /\ wsLog[i].key = wsLog[j].key
        /\ wsLog[i].sock < wsLog[j].sock
        /\ wsLog[i].shown
        /\ ~wsLog[j].shown

---------------------------------------------------------------------------
(* Properties of the simple long-poll client, checked under SpecPoll *)

PollStartOps == {"startLongPolling", "startLongPolling:already active"}
PollSettleOps == {"poll:alert", "poll:other", "poll:catch"}

\* C2: when two consecutive polls are answered with the same alert and the
\* third with a timeout, the alert is handed to displayAlert exactly once and
\* no other alert call is made.
C2_DuplicateDisplayedOnce ==
    \A a \in AlertIds :
        pollRespLog = <<a, a, "timeout">> => pollDisplayLog = <<a>>

\* C3: a response or failure that settles while isPolling is false (stop was
\* called while the request was pending) calls neither displayAlert nor
\* showErrorMessage.
C3_StaleResponseDiscarded ==
    [][(~isPolling /\ op' \in PollSettleOps)
         => (pollDisplayLog' = pollDisplayLog /\ pollErrors' = pollErrors)]_vars

\* C4: a startLongPolling call made while isPolling is true issues no
\* request and starts no cycle: requests in flight, pending timers and
\* isPolling are as before.
C4_StartWhilePollingIsNoop ==
    [][(isPolling /\ op' \in PollStartOps)
         => UNCHANGED <<isPolling, pollInflight, pollTimers, pollFetched>>]_vars

\* C4 witness: the second of two startLongPolling calls returned, and the one
\* request of the first is still in flight.
C4_Witness ==
    /\ op = "startLongPolling:already active"
    /\ isPolling
    /\ pollInflight = 1
    /\ pollFetched = 1

\* C5: at most one poll request is in flight at any time.
C5_AtMostOneInflight == pollInflight <= 1

\* C7: while isPolling is false no request is issued and isPolling stays
\* false, except by a startLongPolling call: a cycle that a timer runs after
\* stopLongPolling returns without fetching.
C7_NoPollAfterStop ==
    [][(~isPolling /\ op' # "startLongPolling")
         => (pollFetched' = pollFetched /\ pollInflight' <= pollInflight
             /\ ~isPolling')]_vars

\* C7 witness: after stopLongPolling the pending request completed, its timer
\* ran longPollCycle, which returned without fetching, and the loop is over.
C7_Witness ==
    /\ op = "longPollCycle:stopped"
    /\ ~isPolling
    /\ pollFetched = 1
    /\ pollInflight = 0
    /\ TimerCount(pollTimers) = 0

---------------------------------------------------------------------------
(* Properties of the persistent-id long-poll client, checked under SpecLong *)

LongChainsPending ==
    lpInflight + lpTimers[50] + lpTimers[100] + lpTimers[1000] + lpTimers[3000]
    + lpRetryTimers[RetryBase] + lpRetryTimers[2 * RetryBase]
    + lpRetryTimers[4 * RetryBase] + lpRetryTimers[RetryCap]

\* C6: a window.startLongPolling call made while a polling chain is running
\* issues no request.
C6_SecondStartIsNoop ==
    [][(op' = "window.startLongPolling" /\ LongChainsPending > 0)
         => UNCHANGED <<lpInflight, lpFetched>>]_vars

\* C8: over a run of consecutive transport failures the retry delay never
\* decreases from one failure to the next and never exceeds the cap.
C8_RetryDelayMonotoneCapped ==
    \A i \in 1..Len(retryDelayLog) :
        /\ retryDelayLog[i] <= RetryCap
        /\ i > 1 => retryDelayLog[i - 1] <= retryDelayLog[i]

\* C9: the consecutive transport failures of a single polling chain get the
\* retry delays 1000, 2000, 4000 and then 5000.
C9_ExponentialBackoff ==
    lpStarted = 1 =>
        \A i \in 1..Len(retryDelayLog) :
            retryDelayLog[i] = Min(RetryCap, RetryBase * Pow2(i - 1))

\* a step that calls initializeClientId, directly or from longPollForAlerts
\* when persistentClientId is not set, with localStorage answering
IdCall ==
    /\ ~InitializeThrows
    /\ \/ op' \in {"initializeClientId:new", "initializeClientId:resume"}
       \/ /\ persistentClientId = Absent
          /\ op' \in {"window.startLongPolling", "longPollForAlerts",
                      "longPollForAlerts:retry"}

\* C10 as stated: a call returns the stored id and leaves it alone; a call
\* that follows another with the entry untouched returns the same id; the
\* call after the entry was wiped returns an id different from the one before.
C10_NewIdAlwaysDiffers ==
    [][IdCall =>
        /\ storage # Absent => (idReturned' = storage /\ storage' = storage)
        /\ (idReturned # Absent /\ ~wiped) => idReturned' = idReturned
        /\ (idReturned # Absent /\ wiped /\ storage = Absent)
             => idReturned' # idReturned]_vars

\* C10 as amended: a call returns the stored id and leaves it alone; a call
\* that follows another with the entry untouched returns the same id; the
\* call after the entry was wiped generates an id, stores it and returns it,
\* and that id differs from the one before whenever Date.now() or the
\* Math.random() part differs from those the one before was made of.
C10_IdentityStable ==
    [][IdCall =>
        /\ storage # Absent => (idReturned' = storage /\ storage' = storage)
        /\ (idReturned # Absent /\ ~wiped) => idReturned' = idReturned
        /\ storage = Absent =>
             /\ idReturned' # Absent
             /\ storage' = idReturned'
             /\ (idReturned # Absent /\ idParts' # idParts)
                  => idReturned' # idReturned]_vars

\* C11: with localStorage unavailable, a window.startLongPolling call still
\* leaves the client with an id and issues the poll request.
C11_PollsWithoutStorage ==
    [][(storageFault # "none"
        /\ op' \in {"window.startLongPolling", "window.startLongPolling:throws"})
         => (persistentClientId' # Absent /\ lpFetched' = lpFetched + 1)]_vars

\* the WebSocket client has no socket that may still open or deliver, and no
\* reconnect timer pending
WsTerminal == socks[Len(socks)] = "closed" /\ wsTimers = 0

\* C12 as stated: the reconnect timer creates at most maxReconnectAttempts
\* WebSockets in the lifetime of the page.
C12_TotalReconnectsBounded == Len(socks) - 1 <= maxReconnectAttempts

\* C12: the reconnect timer creates at most maxReconnectAttempts WebSockets
\* in a row without one of them opening; the close event that finds the
\* attempts used up shows the terminal error, schedules no reconnect timer
\* and leaves the client without socket or timer, and from there no
\* WebSocket is created.
C12_ConsecutiveReconnectsBounded ==
    [][/\ wsSinceOpen' <= maxReconnectAttempts
       /\ (op' = "onclose:gave up")
            => (wsSinceOpen = maxReconnectAttempts /\ wsTimers' = 0
                /\ WsTerminal')
       /\ (WsTerminal /\ reconnectAttempts >= maxReconnectAttempts)
            => (socks' = socks /\ wsTimers' = 0)]_vars

\* C12 witness: five reconnects in a row have failed and the close event of
\* the last one gave up.
C12_Witness ==
    /\ op = "onclose:gave up"
    /\ wsSinceOpen = maxReconnectAttempts
    /\ WsTerminal

\* C13: the WebSocket client is without socket and reconnect timer only when
\* its reconnect attempts are used up or the page itself closed the socket on
\* unload.
C13_TerminalOnlyWhenExhaustedOrUnloaded ==
    WsTerminal => (reconnectAttempts >= maxReconnectAttempts \/ unloaded)

\* C14: after handleLongPollResponse has handled an alert or a timeout,
\* retryCount is zero.
C14_RetryCountZeroAfterSuccess ==
    [][(op' \in {"handleLongPollResponse:alert", "handleLongPollResponse:timeout"})
         => (retryCount' = 0)]_vars

\* C20: a server-error payload makes handleLongPollResponse schedule exactly
\* one next poll, after the fixed 3000 ms, and increment retryCount.
C20_ServerErrorCountsAsRetry ==
    [][(op' = "handleLongPollResponse:error")
         => /\ lpTimers' = [lpTimers EXCEPT ![3000] = @ + 1]
            /\ lpRetryTimers' = lpRetryTimers
            /\ retryCount' = retryCount + 1]_vars

\* the key socket.onmessage computes for an 'alert' message that carries
\* neither alert_id nor title nor sequence
KeylessAlertKey ==
    AlertKey([parses |-> TRUE, type |-> "alert", alert_id |-> Absent,
              title |-> Absent, sequence |-> NoSequence])

\* C16: every delivery of an 'alert' message without alert_id, title and
\* sequence is displayed.
C16_KeylessAlertAlwaysShown ==
    \A i \in 1..Len(wsLog) : wsLog[i].key = KeylessAlertKey => wsLog[i].shown

\* C19: the simple long-poll client never calls showErrorMessage: the
\* user-visible error belongs to the WebSocket client that has used up its
\* reconnect attempts.
C19_LongPollNeverShowsError == pollErrors = 0

\* C15: the simple long-poll client hands alerts to displayAlert in the
\* order in which the server produced the responses that carry them.
C15_DisplayedInProductionOrder ==
    \A i, j \in 1..Len(pollDisplayOrder) :
        i < j => pollDisplayOrder[i] < pollDisplayOrder[j]

\* requests in flight plus pending cycle timers of the simple client
PollPending == pollInflight + TimerCount(pollTimers)

\* C17: a startLongPolling call that finds no request and no timer leaves
\* exactly one request; from then on, while isPolling stays true, every
\* handler leaves exactly one request or timer: each poll that completes, as
\* alert, timeout, server error, unexpected payload or failure, sets the one
\* timer that issues the next request.
C17_ExactlyOneCycle ==
    [][/\ (op' = "startLongPolling" /\ PollPending = 0) => PollPending' = 1
       /\ (isPolling /\ isPolling' /\ PollPending = 1) => PollPending' = 1]_vars

\* C17 witness: started once, polls have completed in the response handler
\* and then in the catch handler, and one retry timer is pending.
C17_Witness ==
    /\ op = "poll:catch"
    /\ isPolling
    /\ Len(pollRespLog) = 2
    /\ pollFetched = MaxPolls
    /\ pollInflight = 0
    /\ TimerCount(pollTimers) = 1

\* C18: a payload that is none of alert, timeout and error makes each
\* long-poll client set the one timer for its next poll (reconnectDelay in
\* the simple client, 1000 ms in the persistent-id client), and the timer
\* issues the request; a WebSocket message that JSON.parse rejects changes
\* neither the connection nor receivedAlertIds nor what was displayed.
C18_MalformedPayloadKeepsDelivery ==
    [][/\ (op' = "poll:other" /\ pollRespLog' = Append(pollRespLog, "unexpected"))
            => /\ pollTimers'[reconnectDelay] = pollTimers[reconnectDelay] + 1
               /\ PollPending' = PollPending
               /\ isPolling' = isPolling
       /\ (op' = "longPollCycle") => pollFetched' = pollFetched + 1
       /\ (op' = "handleLongPollResponse:unexpected")
            => /\ lpTimers'[1000] = lpTimers[1000] + 1
               /\ LongChainsPending' = LongChainsPending
       /\ (op' = "longPollForAlerts") => lpFetched' = lpFetched + 1
       /\ (op' = "onmessage:parse error")
            => UNCHANGED <<socks, reconnectAttempts, alertsStarted,
                           receivedAlertIds, wsTimers, wsLog>>]_vars

\* C18 witness: the WebSocket client, having displayed one alert and
\* suppressed its duplicate, has just dropped a message that did not parse.
C18_Witness ==
    /\ op = "onmessage:parse error"
    /\ Len(wsLog) = 2
    /\ wsLog[1].shown /\ ~wsLog[2].shown
    /\ receivedAlertIds # {}
    /\ SocketOpen

\* C21: every handleLongPollResponse step takes one request out of flight
\* and sets exactly one timer, and no retry timer; the delay is 100 ms for an
\* alert with has_more, 1000 ms for an alert without, 50 ms for a timeout,
\* 3000 ms for a server error and 1000 ms for any other payload.
C21_OneTimerPerShape ==
    [][\A data \in LongPayloads :
         HandleLongPollResponse(data)
           => /\ lpInflight' = lpInflight - 1
              /\ lpRetryTimers' = lpRetryTimers
              /\ \E d \in LongDelays :
                    /\ lpTimers' = [lpTimers EXCEPT ![d] = @ + 1]
                    /\ (data.alert # Absent /\ data.has_more) => d = 100
                    /\ (data.alert # Absent /\ ~data.has_more) => d = 1000
                    /\ (data.alert = Absent /\ data.timeout) => d = 50
                    /\ (data.alert = Absent /\ ~data.timeout /\ data.error)
                         => d = 3000
                    /\ (data.alert = Absent /\ ~data.timeout /\ ~data.error)
                         => d = 1000]_vars

\* C21 witness: an alert with has_more was handled after one without, and
\* the timers of 1000 ms and then of 100 ms were set.
C21_Witness ==
    /\ op = "handleLongPollResponse:alert"
    /\ lpFetched = 2
    /\ lpInflight = 0
    /\ lpTimers[100] = 1
    /\ lpTimers[1000] = 0 /\ lpTimers[50] = 0 /\ lpTimers[3000] = 0

\* C22: restartAlerts sends start_alerts exactly when the socket is open and
\* alertsStarted is false, and in that step it empties receivedAlertIds and
\* sets alertsStarted, so the alert delivered next is displayed whatever its
\* key; a restartAlerts call that does not send leaves receivedAlertIds and
\* alertsStarted as they were.
C22_RestartClearsInLockstep ==
    [][/\ (op' = "restartAlerts:start_alerts")
            => /\ SocketOpen /\ ~alertsStarted
               /\ receivedAlertIds' = {}
               /\ alertsStarted'
       /\ (op' = "restartAlerts")
            => /\ ~(SocketOpen /\ ~alertsStarted)
               /\ UNCHANGED <<receivedAlertIds, alertsStarted>>
       /\ (op = "restartAlerts:start_alerts" /\ op' = "onmessage:alert")
            => wsLog'[Len(wsLog')].shown]_vars

\* C22 witness: after messages were handled and stopAlerts was called, a
\* restartAlerts call has sent start_alerts and the set is empty.
C22_Witness ==
    /\ op = "restartAlerts:start_alerts"
    /\ wsHandled >= 2
    /\ receivedAlertIds = {}
    /\ alertsStarted
    /\ SocketOpen

\* C23: every step of the WebSocket client other than a restartAlerts call
\* that sends start_alerts keeps every id recorded in receivedAlertIds.
C23_ReceivedIdsOnlyGrow ==
    [][(op' # "restartAlerts:start_alerts")
         => receivedAlertIds \subseteq receivedAlertIds']_vars

\* C23 witness: the id of an alert delivered on the first connection is still
\* recorded after that connection closed and the second one opened.
C23_Witness ==
    /\ Len(socks) = 2
    /\ socks[2] = "open"
    /\ Len(wsLog) >= 1
    /\ wsLog[1].sock = 1
    /\ wsLog[1].key \in receivedAlertIds

\* C24: an 'alert' message that carries an alert_id not delivered before
\* (since receivedAlertIds was last emptied) is displayed.
C24_NewServerIdAlwaysShown ==
    \A i \in 1..Len(wsLog) :
        (/\ wsLog[i].id # Absent
         /\ \A j \in 1..(i - 1) : wsLog[j].id # wsLog[i].id)
          => wsLog[i].shown

\* the steps of the latency probe: sendPing, the handling of a pong, and the
\* clean-up timer of a ping
PingPongOps ==
    {"sendPing:ping", "sendPing", "onmessage:pong", "onmessage:pong:unmatched",
     "ping timeout", "ping timeout:deleted"}

\* C25: sending a ping and handling a pong (matched, unmatched or timed out)
\* displays no alert and leaves receivedAlertIds, alertsStarted and
\* reconnectAttempts, the sockets and the pending timers as they were; of the
\* client's data only pendingPings and latencyMeasurements may change
C25_PingPongLeavesDeliveryAlone ==
    [][op' \in PingPongOps =>
         /\ wsLog' = wsLog
         /\ receivedAlertIds' = receivedAlertIds
         /\ alertsStarted' = alertsStarted
         /\ reconnectAttempts' = reconnectAttempts
         /\ socks' = socks
         /\ wsTimers' = wsTimers
         /\ startTimers' = startTimers
         /\ unloaded' = unloaded]_vars

\* C25 witness: the pong of a pending ping has been handled and its latency
\* recorded next to that of an alert, on a page that has started and
\* displayed alerts
C25_Witness ==
    /\ op = "onmessage:pong"
    /\ pingsSent = 1
    /\ pendingPings = {}
    /\ latencyCount = 2
    /\ receivedAlertIds # {}
    /\ alertsStarted
    /\ \E k \in 1..Len(wsLog) : wsLog[k].shown

\* C26: a page unloaded while its socket is open sends stop_alerts before it
\* closes the socket with code 1000, and the close event with code 1000 that
\* results schedules no reconnect and leaves reconnectAttempts as it was
C26_UnloadStopsThenCloses ==
    [][/\ (~unloaded /\ unloaded' /\ SocketOpen)
          => (op' = "beforeunload:stop_alerts"
              /\ socks'[Len(socks)] = "closing")
       /\ \A i \in 1..Len(socks) :
            (socks[i] = "closing" /\ WsClose(i, 1000))
            => (reconnectAttempts' = reconnectAttempts
                /\ wsTimers' = wsTimers)]_vars

\* C27: the abort deadline of a request of the simple long-poll client is
\* the timeout hint it sends, in whole seconds, plus 5000 ms, so that no
\* request is aborted before the hold time asked of the server has elapsed
C27_AbortAfterHoldPlusMargin ==
    /\ holdCount > 0 => holdDeadline = holdHint * 1000 + 5000
    /\ holdPhase = "aborted" => holdElapsed >= holdHint * 1000 + 5000

\* C27 witness: a request was aborted, 25 s after it was sent with a hint of
\* 20 s
C27_Witness ==
    /\ holdPhase = "aborted"
    /\ holdHint = 20
    /\ holdElapsed = 25000

\* C28: in the persistent-id client every poll request eventually resolves
\* (as a response or as a transport error), even when the server never
\* answers: in a run of finitely many requests, whenever requests are in
\* flight there comes a state with none in flight
C28_EveryPollResolves == (lpInflight > 0) ~> (lpInflight = 0)

\* C29: within one page session every poll request and every reset request
\* carries the same client id: the id is fixed before the first request, and
\* no operation of the client changes it afterwards
C29_RequestsCarryOneId ==
    [][/\ lpLastId # Absent
          => (lpLastId' = lpLastId /\ persistentClientId' = persistentClientId)
       /\ lpLastId' # lpLastId => lpLastId' = persistentClientId']_vars

\* C29 witness: a reset request is sent after two poll requests, in a
\* session in which the stored id was wiped
C29_Witness ==
    /\ op = "resetClientPosition:sent"
    /\ lpFetched >= 2
    /\ wiped
    /\ storage = Absent
    /\ lpLastId = persistentClientId

\* C30: reconnectAttempts stays within 0..maxReconnectAttempts; it grows only
\* by one, in a close event that schedules a reconnect and finds it below
\* the limit, and it falls only to 0, in a successful open
C30_ReconnectAttemptsInRange ==
    [][/\ reconnectAttempts \in 0..maxReconnectAttempts
       /\ reconnectAttempts' \in 0..maxReconnectAttempts
       /\ (reconnectAttempts' > reconnectAttempts)
            => (op' = "onclose:reconnect"
                /\ reconnectAttempts < maxReconnectAttempts
                /\ reconnectAttempts' = reconnectAttempts + 1
                /\ wsTimers' = wsTimers + 1)
       /\ (reconnectAttempts' < reconnectAttempts)
            => (op' \in {"onopen", "onopen:start_alerts"}
                /\ reconnectAttempts' = 0)]_vars

\* C30 witness: a socket has opened and reset the count after the close
\* events of five sockets in a row had raised it to the limit
C30_Witness ==
    /\ op = "onopen:start_alerts"
    /\ reconnectAttempts = 0
    /\ Len(socks) = maxReconnectAttempts + 1
    /\ \A i \in 1..maxReconnectAttempts : socks[i] = "closed"
    /\ wsTimers = 0

\* the sockets that are connecting or open
LiveSockets == {i \in 1..Len(socks) : socks[i] \in {"connecting", "open"}}

\* C31: there is at most one live socket and at most one pending reconnect
\* timer, and never both; a reconnect timer is scheduled only by the close
\* event of the current socket, and one at a time
C31_OneSocketOrOneTimer ==
    [][/\ Cardinality(LiveSockets') + wsTimers' <= 1
       /\ (wsTimers' > wsTimers)
            => (op' = "onclose:reconnect"
                /\ wsTimers' = wsTimers + 1
                /\ socks[Len(socks)] # "closed"
                /\ socks' = [socks EXCEPT ![Len(socks)] = "closed"])]_vars

\* C31 witness: the close event of the second socket has scheduled the one
\* pending reconnect timer, and no socket is live
C31_Witness ==
    /\ op = "onclose:reconnect"
    /\ Len(socks) = 2
    /\ LiveSockets = {}
    /\ wsTimers = 1

\* the steps that send start_alerts
StartOps ==
    {"onopen:start_alerts", "restartAlerts:start_alerts",
     "start timer:start_alerts"}

\* the close events
CloseOps == {"onclose", "onclose:reconnect", "onclose:gave up"}

\* C32 as stated: start_alerts goes to the current socket, which is open, and
\* not to a connection that has one with no stop_alerts after it;
\* alertsStarted is true only while the current connection has such a
\* start_alerts, and false after every close; with the delayed start, every
\* open sets the start timer, and the timer sends unless alertsStarted is
\* set or the current socket is not open
C32_StartOncePerConnection ==
    [][/\ (op' \in StartOps)
            => (socks'[Len(socks')] = "open"
                /\ startedSock # Len(socks)
                /\ startedSock' = Len(socks'))
       /\ alertsStarted' => startedSock' = Len(socks')
       /\ (op' \in CloseOps) => ~alertsStarted'
       /\ (op' = "onopen") => startTimers' = startTimers + 1
       /\ (op' = "start timer") => (alertsStarted \/ ~SocketOpen)]_vars

\* C32 as amended: as stated, except that alertsStarted may also be true
\* between the stop_alerts that the unload handler of the delayed-start
\* variant sends and the close event of that socket
C32_StartOncePerConnectionUntilUnload ==
    [][/\ (op' \in StartOps)
            => (socks'[Len(socks')] = "open"
                /\ startedSock # Len(socks)
                /\ startedSock' = Len(socks'))
       /\ alertsStarted'
            => (startedSock' = Len(socks')
                \/ (unloaded' /\ socks'[Len(socks')] = "closing"))
       /\ (op' \in CloseOps) => ~alertsStarted'
       /\ (op' = "onopen") => startTimers' = startTimers + 1
       /\ (op' = "start timer") => (alertsStarted \/ ~SocketOpen)]_vars

\* C32 witness: with the delayed start, the first connection closed before
\* a start timer fired, and the one timer that has fired sent start_alerts
\* to the second connection
C32_Witness ==
    /\ op = "start timer:start_alerts"
    /\ socks = <<"closed", "open">>
    /\ startTimers = 1
    /\ startedSock = 2
    /\ alertsStarted

\* C33: a message of type 'error' or 'status', or one that is not valid JSON,
\* displays no alert, schedules no reconnect and closes no socket, and leaves
\* receivedAlertIds, alertsStarted and reconnectAttempts as they were
C33_ControlMessagesChangeNothing ==
    [][(op' \in {"onmessage:error", "onmessage:status", "onmessage:parse error"})
         => UNCHANGED <<wsLog, wsTimers, socks, receivedAlertIds, alertsStarted,
                        reconnectAttempts>>]_vars

\* C33 witness: a status message was handled on a reconnected socket of a
\* page that holds the key of a displayed alert
C33_Witness ==
    /\ op = "onmessage:status"
    /\ Len(socks) = 2
    /\ reconnectAttempts = 0
    /\ alertsStarted
    /\ receivedAlertIds # {}
    /\ \E k \in 1..Len(wsLog) : wsLog[k].shown

\* C35: an expiry timer of the push client changes the display of the alert
\* it was scheduled for only: whatever notifications, clearAlerts calls and
\* timer firings came before, the element a timer takes the 'new' marker from
\* shows the alert of that timer, never an alert received later
C35_TimerTouchesOwnAlertOnly ==
    [][(op' = "expiry timer") =>
          (/\ Len(alertsContainer') = Len(alertsContainer)
           /\ \A k \in 1..Len(alertsContainer) :
                 (alertsContainer'[k] # alertsContainer[k]) =>
                     (alertsContainer[k].obj = Head(expiryTimers).obj))]_vars

\* C34: in the push client the alerts of receivedAlerts have pairwise distinct
\* ids, and the id handleNotification gives a new alert is greater than the
\* id of every alert held when it is called, alerts that
\* loadAlertsFromStorage brought back included
C34_IdsDistinctAndIncreasing ==
    [][(/\ \A i, j \in 1..Len(receivedAlerts') :
              (i # j) => (receivedAlerts'[i].id # receivedAlerts'[j].id)
        /\ (op' = "handleNotification") =>
              (\A k \in 1..Len(receivedAlerts) :
                  receivedAlerts[k].id < receivedAlerts'[1].id))]_vars

C37_OneSamplePerPing ==
    [][(/\ pendingPings' \subseteq pingTimers'
        /\ \A p \in pendingPings' \ pendingPings :
              (op' = "sendPing:ping") /\ (p = pingsSent') /\ (p > pingsSent)
        /\ (op' = "onmessage:pong") =>
              (/\ pendingPings' \subseteq pendingPings
               /\ Cardinality(pendingPings \ pendingPings') = 1
               /\ latencyCount' \in {latencyCount, latencyCount + 1})
        /\ (op' = "onmessage:pong:unmatched") =>
              (/\ pendingPings' = pendingPings
               /\ latencyCount' = latencyCount)
        /\ (op' \in {"ping timeout", "ping timeout:deleted"}) =>
              (/\ pingTimers' # pingTimers
               /\ pendingPings' = pendingPings \ (pingTimers \ pingTimers')
               /\ latencyCount' = latencyCount))]_vars

\* C37 witness: on a page that has handled no alert, the pong of the pending
\* ping recorded the one sample there is, and a later pong, whose id is not
\* pending any more or never was, has been handled
C37_Witness ==
    /\ op = "onmessage:pong:unmatched"
    /\ wsLog = <<>>
    /\ pingsSent = 1
    /\ pendingPings = {}
    /\ latencyCount = 1

\* C10 witness: after a wipe a call generated, stored and returned an id
\* that is not the one the call before it returned.
C10_Witness ==
    /\ op = "initializeClientId:new"
    /\ idBefore # Absent
    /\ idReturned # idBefore
    /\ storage = idReturned

=============================================================================
